---------------------------- MODULE Spec2Model ----------------------------
(***************************************************************************)
(* Model of the DeCentGit indexer (src/indexer/indexer.py, db.py): the     *)
(* poll loop, one process_chain cycle split at its statements that touch   *)
(* the store, the sqlite connection (implicit transaction: writes are      *)
(* visible to the connection at once and durable only at conn.commit()),   *)
(* and verify_signature.                                                   *)
(*                                                                         *)
(* The response of GET /chain is held as the sequence of its blocks'       *)
(* indices, which is what the filter and the sort read; the timestamp and  *)
(* the transactions of a block are drawn when the loops of lines 58 and    *)
(* 60 read them (each is read once per cycle, so the runs are those of a   *)
(* response fixed at the fetch).                                           *)
(*                                                                         *)
(* Spec lets the node answer each fetch freely; SpecFixed holds one        *)
(* gapless chain for the whole run and lets the node deliver its prefixes; *)
(* LiveSpec adds the progress the process itself guarantees.               *)
(***************************************************************************)
EXTENDS Integers, Sequences, FiniteSets, TLC

\* ------------------------------------------------------------- bounds
\* Largest block index the node serves.
MaxIndex == 2
\* Largest number of blocks in one /chain response.
MaxChainLen == 2
\* Largest number of transactions read from one block.
MaxTx == 2

\* ------------------------------------------------------------- data
GENESIS_COMMIT == "0000000000000000000000000000000000000000"

RepoIds == {"r1"}
RefNames == {"main", "dev"}
Timestamps == {1000, 2000}

\* The fields line 62 requires of an attestation.
RequiredFields ==
    {"repo_id", "ref", "old_commit", "new_commit", "signer_identity", "signature"}

\* The fields line 21 keeps for the signed message.
SignedFields == {"repo_id", "ref", "old_commit", "new_commit"}

\* A wire value of signer_identity: how it decodes.  enc says what
\* bytes.fromhex makes of the JSON value ("hex": a hex string, "nonhex": a
\* string that is not hex, "nonstr": a JSON number), point what
\* VerifyingKey.from_string makes of the bytes ("PK1", "PK2": a P-256 public
\* key, "short": a wrong-length string).
SignerPK1 == [enc |-> "hex", point |-> "PK1"]
SignerPK2 == [enc |-> "hex", point |-> "PK2"]
SignerNonHex == [enc |-> "nonhex", point |-> "none"]
SignerNonStr == [enc |-> "nonstr", point |-> "none"]
SignerShort == [enc |-> "hex", point |-> "short"]

\* json.dumps(attestation_data, sort_keys=True): the canonical encoding of
\* exactly the signed fields the transaction has (line 21-22).
Message(att) == [k \in (DOMAIN att) \cap SignedFields |-> att[k]]

\* The hex signature the holder of the private key of `point` makes over msg.
SignatureOf(point, msg) == [enc |-> "hex", by |-> point, over |-> msg]

\* An attestation as the CLI submits it: the four signed fields, the
\* signer's public key and the signature over the canonical message.
Attestation(repo, ref, old, new, signer) ==
    LET body == [repo_id |-> repo, ref |-> ref, old_commit |-> old, new_commit |-> new]
    IN  [repo_id |-> repo, ref |-> ref, old_commit |-> old, new_commit |-> new,
         signer_identity |-> signer,
         signature |-> SignatureOf(signer.point, body)]

\* Drop a field of a transaction.
Without(tx, f) == [k \in (DOMAIN tx) \ {f} |-> tx[k]]

\* The ref moves the node's clients attest: two pushes to main, one to
\* dev, and the pushes to main also by a second key holder.
Moves ==
    {<<"main", GENESIS_COMMIT, "a1a1">>, <<"main", "a1a1", "b2b2">>,
     <<"dev", GENESIS_COMMIT, "a1a1">>}

ValidAtts ==
    {Attestation(r, m[1], m[2], m[3], SignerPK1) : r \in RepoIds, m \in Moves}
    \cup {Attestation("r1", "main", GENESIS_COMMIT, "a1a1", SignerPK2),
          Attestation("r1", "main", "a1a1", "b2b2", SignerPK2)}

\* Transactions that are not acceptable attestations: a signed field changed
\* after signing, a missing field, and signer_identity values that do not
\* decode.
BadTxs ==
    LET a == Attestation("r1", "main", GENESIS_COMMIT, "a1a1", SignerPK1)
    IN  { [a EXCEPT !.new_commit = "b2b2"],
          Without(a, "signature"),
          [a EXCEPT !.signer_identity = SignerNonHex],
          [a EXCEPT !.signer_identity = SignerNonStr],
          [a EXCEPT !.signer_identity = SignerShort] }

TxPool == ValidAtts \cup BadTxs

\* A block of the response as the filter and the sort see it.
Blocks == [index : 1..MaxIndex]

RECURSIVE SeqsUpTo(_, _)
SeqsUpTo(S, n) ==
    IF n = 0 THEN {<<>>}
    ELSE LET shorter == SeqsUpTo(S, n - 1)
         IN  shorter \cup {Append(s, x) : s \in {t \in shorter : Len(t) = n - 1}, x \in S}

Chains == SeqsUpTo(Blocks, MaxChainLen)

\* len(block['transactions']) stands at this value for a block without
\* the key 'transactions' (line 60 raises KeyError).
NoTransactions == -1

\* The bodies a block of a fixed chain can have: no 'transactions' key, no
\* transaction, one first push, two chained pushes, pushes by the second
\* key holder, a tampered transaction before a good one, a transaction
\* lacking a field before a good one, and a signer_identity that is a
\* JSON number.
FixedBodies ==
    LET g1 == Attestation("r1", "main", GENESIS_COMMIT, "a1a1", SignerPK1)
        g2 == Attestation("r1", "main", GENESIS_COMMIT, "a1a1", SignerPK2)
        n1 == Attestation("r1", "main", "a1a1", "b2b2", SignerPK1)
        n2 == Attestation("r1", "main", "a1a1", "b2b2", SignerPK2)
        d1 == Attestation("r1", "dev", GENESIS_COMMIT, "a1a1", SignerPK1)
    IN  { Without([transactions |-> <<>>], "transactions"),
          [transactions |-> <<>>],
          [transactions |-> <<g1>>],
          [transactions |-> <<g1, n1>>],
          [transactions |-> <<n2, d1>>],
          [transactions |-> <<[g1 EXCEPT !.new_commit = "b2b2"], g2>>],
          [transactions |-> <<Without(g1, "signature"), n1>>],
          [transactions |-> <<[g1 EXCEPT !.signer_identity = SignerNonStr]>>] }

\* The chains a node can hold for a whole run: gapless, indices 1, 2, ...
Ledgers == [1..MaxIndex -> FixedBodies]

\* The timestamp of block i of a fixed chain.
LedgerStamp(i) == 1000 * i

\* len(b['transactions']).
NtxOf(b) == IF "transactions" \in DOMAIN b THEN Len(b.transactions) ELSE NoTransactions

\* The first n blocks of a fixed chain, as /chain lists them.
Prefix(n) == [i \in 1..n |-> [index |-> i]]

\* ------------------------------------------------------------- verify_signature
\* bytes.fromhex(x): "TypeError" for a non-string, "ValueError" for a
\* string that is not hex, "ok" otherwise.
bytes_fromhex(x) ==
    CASE x.enc = "nonstr" -> "TypeError"
      [] x.enc = "nonhex" -> "ValueError"
      [] OTHER -> "ok"

\* VerifyingKey.from_string(bytes, curve=NIST256p): ecdsa raises
\* MalformedPointError, a subclass of AssertionError, for a string of the
\* wrong length or a point off the curve.
from_string(signer) ==
    IF signer.point \in {"PK1", "PK2"} THEN "ok" ELSE "AssertionError"

\* The outcome of verify_signature(att): "True", "False", or the name of
\* the exception that escapes its except clause (BadSignatureError, KeyError
\* and ValueError are caught, line 26).
verify_signature(att) ==
    IF "signer_identity" \notin DOMAIN att THEN "False"
    ELSE IF bytes_fromhex(att.signer_identity) = "TypeError" THEN "TypeError"
    ELSE IF bytes_fromhex(att.signer_identity) = "ValueError" THEN "False"
    ELSE IF from_string(att.signer_identity) # "ok" THEN "AssertionError"
    ELSE IF "signature" \notin DOMAIN att THEN "False"
    ELSE IF bytes_fromhex(att.signature) = "TypeError" THEN "TypeError"
    ELSE IF bytes_fromhex(att.signature) = "ValueError" THEN "False"
    ELSE IF att.signature.by = att.signer_identity.point
            /\ att.signature.over = Message(att)
         THEN "True"
         ELSE "False"

\* ------------------------------------------------------------- the store
\* The refs table: a function from the primary keys <<repo_id, ref_name>>
\* that have a row to [commit_hash, updated_at].
NoRefs == [k \in {} |-> [commit_hash |-> "", updated_at |-> 0]]

\* Mutant: without a row the head is None, no default.
CommitOrNone(refs, repo, ref) ==
    IF <<repo, ref>> \in DOMAIN refs THEN refs[<<repo, ref>>].commit_hash
    ELSE "None"

\* SELECT commit_hash FROM refs WHERE ...; GENESIS_COMMIT without a row
\* (lines 73-75).
current_commit_in_db(refs, repo, ref) ==
    IF <<repo, ref>> \in DOMAIN refs THEN refs[<<repo, ref>>].commit_hash
    ELSE GENESIS_COMMIT

\* Mutant: a replaced row keeps the updated_at it had.
InsertKeepStamp(refs, repo, ref, commit, ts) ==
    [k \in (DOMAIN refs) \cup {<<repo, ref>>} |->
        IF k = <<repo, ref>>
        THEN [commit_hash |-> commit,
              updated_at |-> IF k \in DOMAIN refs THEN refs[k].updated_at ELSE ts]
        ELSE refs[k]]

\* INSERT OR REPLACE INTO refs (lines 83-86).
InsertOrReplace(refs, repo, ref, commit, ts) ==
    [k \in (DOMAIN refs) \cup {<<repo, ref>>} |->
        IF k = <<repo, ref>> THEN [commit_hash |-> commit, updated_at |-> ts]
        ELSE refs[k]]

\* Mutant: a head that is not the sentinel moves only for the key PK1.
ConsistentForOwner(tx, head) ==
    /\ tx.old_commit = head
    /\ head = GENESIS_COMMIT \/ tx.signer_identity.point = "PK1"

\* Mutant: any first update of a key passes the check.
ConsistentOrUnseen(tx, head) == tx.old_commit = head \/ head = GENESIS_COMMIT

\* The consistency check of line 77.
Consistent(tx, head) == tx.old_commit = head

\* Mutant: no filter, every block of the response is processed.
FilterNewAll(chain, last) == chain

\* Mutant: the filter keeps the block at the checkpoint (>= for >).
RECURSIVE FilterNewInclusive(_, _)
FilterNewInclusive(chain, last) ==
    IF chain = <<>> THEN <<>>
    ELSE IF Head(chain).index >= last
         THEN <<Head(chain)>> \o FilterNewInclusive(Tail(chain), last)
         ELSE FilterNewInclusive(Tail(chain), last)

\* new_blocks of line 50.
RECURSIVE FilterNew(_, _)
FilterNew(chain, last) ==
    IF chain = <<>> THEN <<>>
    ELSE IF Head(chain).index > last
         THEN <<Head(chain)>> \o FilterNew(Tail(chain), last)
         ELSE FilterNew(Tail(chain), last)

\* sorted(new_blocks, key=index) of line 58: stable, so blocks of equal
\* index keep the order of the response.
RECURSIVE InsertByIndex(_, _)
InsertByIndex(b, s) ==
    IF s = <<>> THEN <<b>>
    ELSE IF Head(s).index <= b.index
         THEN <<Head(s)>> \o InsertByIndex(b, Tail(s))
         ELSE <<b>> \o s

\* Mutant: the blocks are processed in the order of the response.
Unsorted(s) == s

RECURSIVE SortedByIndex(_)
SortedByIndex(s) ==
    IF s = <<>> THEN <<>>
    ELSE InsertByIndex(s[Len(s)], SortedByIndex(SubSeq(s, 1, Len(s) - 1)))


\* ------------------------------------------------------------- state
VARIABLES
    pc,                   \* where the process is: "loop" (line 107, about to
                          \* call process_chain), "fetch" (line 45), "next"
                          \* (line 58, between blocks), "txs" (line 60, inside
                          \* a block), "commit" (line 91), "terminated"
    exit,                 \* why the process ended: "none", "uncaught", "killed"
    durable,              \* the database file: [refs, ckpt]
    view,                 \* what the open connection reads: the file plus the
                          \* writes of its open transaction
    conn,                 \* the connection of line 32: "open" or "closed"
    ledger,               \* the chain of the node when it is fixed for the
                          \* whole run (SpecFixed): block index -> block;
                          \* NoLedger when each response is free (Spec)
    last_processed_block, \* the local of line 40
    new_blocks,           \* the blocks of line 58 not yet reached
    block,                \* the loop variable of line 58: its index, its
                          \* timestamp and ntx = len(block['transactions'])
    txCount,              \* transactions of `block` read so far
    \* history of the run, read by the properties only
    outcome,              \* how the last cycle ended: "ok", "fetch_error",
                          \* "db_error", "uncaught", "killed"; "running"
                          \* inside a cycle, "none" before the first
    response,             \* the chain this cycle fetched; before the fetch,
                          \* the chain of the cycle before if it ended "ok"
                          \* (else NoResponse)
    redelivered,          \* whether this cycle's response is the response
                          \* of the cycle before, which ended "ok"
    cycleStart,           \* `durable` when the cycle started
    preBlock,             \* `durable` when `block` was reached
    staged,               \* the ref updates accepted in `block`, in order
    lastCommit,           \* what the connection read at the last
                          \* conn.commit() of this cycle (at its start: the
                          \* file)
    inBlock,              \* whether the cycle ended inside a block
    lastTx,               \* the transaction evaluated last, how it fared,
    verdict,              \* and the refs the connection read before it
    viewBefore

vars == <<pc, exit, durable, view, conn, ledger, last_processed_block, new_blocks, block, txCount,
          outcome, response, redelivered, cycleStart, preBlock,
          staged, lastCommit, inBlock, lastTx, verdict, viewBefore>>

progVars == <<last_processed_block, new_blocks, block, txCount>>
evalVars == <<lastTx, verdict, viewBefore>>
histVars == <<redelivered, cycleStart, preBlock, staged, lastCommit>>

NoBlock == [index |-> 0, timestamp |-> 0, ntx |-> 0]

NoLedger == <<>>

\* `response` when the cycle before did not end "ok".
NoResponse == <<[index |-> 0]>>
NoTx == [k \in {} |-> ""]

\* setup_database on a fresh file: empty refs, last_processed_block = 0.
FreshStore == [refs |-> NoRefs, ckpt |-> 0]

InitProcess ==
    /\ pc = "loop"
    /\ exit = "none"
    /\ conn = "closed"
    /\ durable = FreshStore
    /\ view = FreshStore
    /\ last_processed_block = 0
    /\ new_blocks = <<>>
    /\ block = NoBlock
    /\ txCount = 0
    /\ outcome = "none"
    /\ response = NoResponse
    /\ redelivered = FALSE
    /\ cycleStart = FreshStore
    /\ preBlock = FreshStore
    /\ staged = <<>>
    /\ lastCommit = FreshStore
    /\ inBlock = FALSE
    /\ lastTx = NoTx
    /\ verdict = "none"
    /\ viewBefore = NoRefs

\* Each response of the node is free.
Init ==
    /\ ledger = NoLedger
    /\ InitProcess

\* The node serves one chain for the whole run.
InitFixed ==
    /\ ledger \in Ledgers
    /\ InitProcess

\* ------------------------------------------------------------- the connection
\* Mutant: a connection in autocommit mode, every write is durable at once.
AutocommitWrite(d, v) == v

\* What the file holds after the connection executed a write that left it
\* reading v: sqlite3.connect opens the connection with implicit
\* transactions, so the write stays in the open transaction.
AfterWrite(d, v) == d

\* What the file holds after conn.commit() on a connection reading v.
AfterCommit(d, v) == v

\* Mutant: closing the connection commits its open transaction.
CommitOnClose(d, v) == v

\* What the file holds after conn.close() (or the death of the process) on
\* a connection reading v: the open transaction is rolled back.
AfterClose(d, v) == d

\* Mutant: a path out of process_chain that skips conn.close().
LeakedConn(c) == c

\* The connection after conn.close() (line 100).
ClosedConn(c) == "closed"

\* Mutant: the SELECT names a key the meta table lacks, so the default 0.
ReadCheckpointDefault(d) == 0

\* Lines 38-40: last_processed_block as read from the meta table.
ReadCheckpoint(d) == d.ckpt

\* Mutant: the SELECT of line 73 reads the file, not the open transaction.
SelectCommitted(d, v) == d.refs

\* The refs table the SELECT of line 73 reads: the cursor belongs to the
\* connection that made the writes of line 83, so it sees them.
SelectRefs(d, v) == v.refs

\* Mutant: `break` for `continue`, the rest of the block is not read.
BreakOnReject(count, ntx) == ntx

\* The position in block['transactions'] after a `continue` of lines 64,
\* 70 or 79: the loop of line 60 goes on with the next transaction.
AfterContinue(count, ntx) == count + 1

\* The evaluation record is dropped with the loop variable tx.
ForgetTx ==
    /\ lastTx' = NoTx
    /\ verdict' = "none"
    /\ viewBefore' = NoRefs

\* finally: conn.close() (lines 98-100), leaving process_chain with result
\* r; its locals die with the call (`block` is kept as the block the cycle
\* ended in).
Close(r) ==
    /\ conn' = ClosedConn(conn)
    /\ durable' = AfterClose(durable, view)
    /\ view' = AfterClose(durable, view)
    /\ outcome' = r
    /\ inBlock' = (pc \in {"txs", "commit"})
    /\ last_processed_block' = 0
    /\ new_blocks' = <<>>
    /\ txCount' = 0
    /\ block' = block

\* An exception no except clause of process_chain names: the finally block
\* closes the connection and the exception leaves the loop of line 107.
Uncaught ==
    /\ Close("uncaught")
    /\ response' = NoResponse
    /\ pc' = "terminated"
    /\ exit' = "uncaught"

\* A caught error or a return: back to line 107 after time.sleep(15).
Return(r) ==
    /\ Close(r)
    /\ ForgetTx
    /\ response' = IF r = "ok" THEN response ELSE NoResponse
    /\ pc' = "loop"
    /\ exit' = exit

\* ------------------------------------------------------------- process_chain
\* A call of process_chain starts with fresh locals, and the history of
\* the cycle before is dropped.
NewCycle ==
    /\ new_blocks' = <<>>
    /\ block' = NoBlock
    /\ txCount' = 0
    /\ cycleStart' = durable
    /\ preBlock' = durable
    /\ staged' = <<>>
    /\ lastCommit' = durable
    /\ redelivered' = FALSE
    /\ inBlock' = FALSE
    /\ ForgetTx

\* Lines 32-41: connect and read the checkpoint.
StartCycle ==
    /\ pc = "loop"
    /\ NewCycle
    /\ view' = durable
    /\ last_processed_block' = ReadCheckpoint(durable)
    /\ outcome' = "running"
    /\ response' = response
    /\ pc' = "fetch"
    /\ conn' = "open"
    /\ UNCHANGED <<exit, durable, ledger>>

\* Line 32: sqlite3.connect raises outside the try statement.
ConnectFails ==
    /\ pc = "loop"
    /\ NewCycle
    /\ pc' = "terminated"
    /\ exit' = "uncaught"
    /\ outcome' = "uncaught"
    /\ response' = NoResponse
    /\ UNCHANGED <<durable, view, last_processed_block, conn, ledger>>

\* Line 38: the SELECT raises sqlite3.Error, caught at line 96.
ReadCheckpointFails ==
    /\ pc = "loop"
    /\ cycleStart' = durable
    /\ preBlock' = durable
    /\ staged' = <<>>
    /\ lastCommit' = durable
    /\ redelivered' = FALSE
    /\ Return("db_error")
    /\ UNCHANGED ledger

\* Lines 45-46: requests.get or raise_for_status raises RequestException,
\* caught at line 94.
FetchFails ==
    /\ pc = "fetch"
    /\ Return("fetch_error")
    /\ UNCHANGED <<redelivered, cycleStart, preBlock, staged, lastCommit, ledger>>

\* Line 47: the body is JSON without a 'chain' key: KeyError.
FetchBadBody ==
    /\ pc = "fetch"
    /\ Uncaught
    /\ ForgetTx
    /\ UNCHANGED <<redelivered, cycleStart, preBlock, staged, lastCommit, ledger>>

\* Lines 47-58: the response, the filter, the early return, the sort.
FetchOk(chain) ==
    /\ pc = "fetch"
    /\ redelivered' = (chain = response)
    /\ LET nb == SortedByIndex(FilterNew(chain, last_processed_block))
       IN  IF nb = <<>>
           THEN /\ Close("ok")
                /\ ForgetTx
                /\ response' = chain
                /\ pc' = "loop"
                /\ exit' = exit
           ELSE /\ response' = chain
                /\ new_blocks' = nb
                /\ pc' = "next"
                /\ UNCHANGED <<exit, durable, view, outcome, inBlock,
                               last_processed_block, block, txCount, conn>>
                /\ UNCHANGED evalVars
    /\ UNCHANGED <<cycleStart, preBlock, staged, lastCommit, ledger>>

\* Lines 58-60: the loop reaches its next block, whose timestamp is ts
\* and which lists n transactions.
NextBlock(ts, n) ==
    /\ pc = "next"
    /\ new_blocks # <<>>
    /\ block' = [index |-> Head(new_blocks).index, timestamp |-> ts, ntx |-> n]
    /\ new_blocks' = Tail(new_blocks)
    /\ txCount' = 0
    /\ preBlock' = durable
    /\ staged' = <<>>
    /\ pc' = "txs"
    /\ UNCHANGED <<exit, durable, view, last_processed_block, outcome, response,
                   redelivered, cycleStart, lastCommit, inBlock, conn, ledger>>
    /\ UNCHANGED evalVars

\* Line 58 after the last block: the function returns through finally.
LoopEnds ==
    /\ pc = "next"
    /\ new_blocks = <<>>
    /\ Return("ok")
    /\ UNCHANGED histVars
    /\ UNCHANGED ledger

\* Line 60: the block has no 'transactions' key: KeyError.
BlockMalformed ==
    /\ pc = "txs"
    /\ block.ntx = NoTransactions
    /\ Uncaught
    /\ ForgetTx
    /\ UNCHANGED histVars
    /\ UNCHANGED ledger

\* How lines 62-86 treat transaction tx when the connection reads refs:
\* "skipped", "raised", "badsig", "inconsistent" or "accepted".
Evaluate(tx, refs) ==
    IF ~(RequiredFields \subseteq DOMAIN tx) THEN "skipped"
    ELSE IF verify_signature(tx) \notin {"True", "False"} THEN "raised"
    ELSE IF verify_signature(tx) = "False" THEN "badsig"
    ELSE IF ~Consistent(tx, current_commit_in_db(refs, tx.repo_id, tx.ref))
         THEN "inconsistent"
         ELSE "accepted"

\* Lines 60-86: one iteration of the transaction loop.
EvalTx(tx) ==
    /\ pc = "txs"
    /\ txCount < block.ntx
    /\ lastTx' = tx
    /\ viewBefore' = view.refs
    /\ verdict' = Evaluate(tx, SelectRefs(durable, view))
    /\ CASE Evaluate(tx, SelectRefs(durable, view)) = "raised" ->
              /\ Uncaught
              /\ UNCHANGED staged
         [] Evaluate(tx, SelectRefs(durable, view)) = "accepted" ->
              /\ view' = [view EXCEPT !.refs =
                    InsertOrReplace(view.refs, tx.repo_id, tx.ref, tx.new_commit,
                                    block.timestamp)]
              /\ durable' = AfterWrite(durable, view')
              /\ staged' = Append(staged,
                    [repo_id |-> tx.repo_id, ref |-> tx.ref,
                     commit |-> tx.new_commit, ts |-> block.timestamp])
              /\ txCount' = txCount + 1
              /\ UNCHANGED <<pc, exit, outcome, inBlock, last_processed_block,
                             new_blocks, block, response, conn>>
         [] OTHER ->
              /\ txCount' = AfterContinue(txCount, block.ntx)
              /\ UNCHANGED <<pc, exit, durable, view, outcome, inBlock, staged,
                             last_processed_block, new_blocks, block, response,
                             conn>>
    /\ UNCHANGED <<redelivered, cycleStart, preBlock, lastCommit, ledger>>

\* Lines 88-90: the transactions of the block are exhausted; UPDATE meta.
UpdateMeta ==
    /\ pc = "txs"
    /\ txCount = block.ntx
    /\ view' = [view EXCEPT !.ckpt = block.index]
    /\ durable' = AfterWrite(durable, view')
    /\ pc' = "commit"
    /\ ForgetTx
    /\ UNCHANGED <<exit, outcome, inBlock, response, conn, ledger>>
    /\ UNCHANGED histVars
    /\ UNCHANGED progVars

\* Lines 91-92: conn.commit().
Commit ==
    /\ pc = "commit"
    /\ durable' = AfterCommit(durable, view)
    /\ lastCommit' = view
    /\ pc' = "next"
    /\ UNCHANGED <<exit, view, outcome, inBlock, response, redelivered, cycleStart,
                   preBlock, staged, conn, ledger>>
    /\ UNCHANGED progVars
    /\ UNCHANGED evalVars

\* A statement of lines 73-91 raises sqlite3.Error (a failed SELECT, INSERT,
\* UPDATE or commit), caught at line 96.
StoreError ==
    /\ pc \in {"txs", "commit"}
    /\ Return("db_error")
    /\ UNCHANGED histVars
    /\ UNCHANGED ledger

\* ------------------------------------------------------------- the process
\* The process is killed (or the machine stops) inside a cycle: sqlite
\* rolls the open transaction back when the file is next opened.
Kill ==
    /\ pc \in {"fetch", "next", "txs", "commit"}
    /\ Close("killed")
    /\ ForgetTx
    /\ response' = NoResponse
    /\ pc' = "terminated"
    /\ exit' = "killed"
    /\ UNCHANGED histVars
    /\ UNCHANGED ledger

\* The process is killed in time.sleep(15): no connection is open.
KillAsleep ==
    /\ pc = "loop"
    /\ pc' = "terminated"
    /\ exit' = "killed"
    /\ UNCHANGED <<durable, view, outcome, inBlock, response, conn, ledger>>
    /\ UNCHANGED histVars
    /\ UNCHANGED progVars
    /\ UNCHANGED evalVars

\* setup_database on an existing file: CREATE TABLE IF NOT EXISTS and
\* INSERT OR IGNORE leave the tables and the checkpoint row as they are.
setup_database(d) == [refs |-> d.refs, ckpt |-> d.ckpt]

\* The program is started again (lines 102-107): a new process, which
\* knows nothing of the one before.
Restart ==
    /\ pc = "terminated"
    /\ durable' = setup_database(durable)
    /\ view' = setup_database(durable)
    /\ pc' = "loop"
    /\ exit' = "none"
    /\ outcome' = "none"
    /\ response' = NoResponse
    /\ last_processed_block' = 0
    /\ conn' = "closed"
    /\ NewCycle
    /\ UNCHANGED ledger

\* The /chain bodies the node can answer with.
Responses ==
    IF ledger = NoLedger THEN Chains ELSE {Prefix(n) : n \in 0..MaxIndex}

\* The <<timestamp, number of transactions>> the next block can show.
BlockReads ==
    IF new_blocks = <<>> THEN {}
    ELSE IF ledger = NoLedger THEN Timestamps \X (NoTransactions..MaxTx)
    ELSE LET i == Head(new_blocks).index
         IN  {<<LedgerStamp(i), NtxOf(ledger[i])>>}

\* The transactions the next iteration of line 60 can read.
TxReads ==
    IF ledger = NoLedger THEN TxPool
    ELSE IF pc = "txs" /\ txCount < block.ntx
         THEN {ledger[block.index].transactions[txCount + 1]}
         ELSE {}

Next ==
    \/ StartCycle
    \/ ConnectFails
    \/ ReadCheckpointFails
    \/ FetchFails
    \/ FetchBadBody
    \/ \E chain \in Responses : FetchOk(chain)
    \/ \E r \in BlockReads : NextBlock(r[1], r[2])
    \/ LoopEnds
    \/ BlockMalformed
    \/ \E tx \in TxReads : EvalTx(tx)
    \/ UpdateMeta
    \/ Commit
    \/ StoreError
    \/ Kill
    \/ KillAsleep
    \/ Restart

Spec == Init /\ [][Next]_vars

\* The runs over one fixed gapless chain.
SpecFixed == InitFixed /\ [][Next]_vars

\* The steps of a cycle that wait for nothing outside the process: the
\* loops of lines 58 and 60, the writes and the commit.
LocalStep ==
    \/ \E r \in BlockReads : NextBlock(r[1], r[2])
    \/ LoopEnds
    \/ BlockMalformed
    \/ \E tx \in TxReads : EvalTx(tx)
    \/ UpdateMeta
    \/ Commit

\* The runs in which the process keeps running: time.sleep(15) ends and the
\* next call of process_chain starts (line 107-109), and a cycle takes its
\* local steps.  Nothing makes the node answer: requests.get(url) of line
\* 45 is called without timeout=, so it returns when the node answers or
\* the connection breaks, and not otherwise.
LiveSpec == Spec /\ WF_vars(StartCycle) /\ WF_vars(LocalStep)

TypeOK ==
    /\ pc \in {"loop", "fetch", "next", "txs", "commit", "terminated"}
    /\ exit \in {"none", "uncaught", "killed"}
    /\ durable.ckpt \in 0..MaxIndex
    /\ view.ckpt \in 0..MaxIndex
    /\ txCount \in 0..MaxTx
    /\ conn \in {"open", "closed"}
    /\ block.ntx \in NoTransactions..MaxTx
    /\ ledger = NoLedger \/ ledger \in Ledgers

\* ------------------------------------------------------------- properties
\* The head of key <<repo, ref>> in a refs table, read off the table itself.
HeadIn(refs, repo, ref) ==
    IF \E k \in DOMAIN refs : k = <<repo, ref>>
    THEN refs[<<repo, ref>>].commit_hash
    ELSE GENESIS_COMMIT

\* C1: chain of custody.  Whenever a transaction has just been accepted, its
\* old_commit is the commit_hash the store held for its (repo_id, ref)
\* immediately before (GENESIS_COMMIT without a row), and its new_commit is
\* the head immediately after: the accepted new_commit values of a key form
\* one chain.
ChainOfCustody ==
    verdict = "accepted" =>
        /\ lastTx.old_commit = HeadIn(viewBefore, lastTx.repo_id, lastTx.ref)
        /\ HeadIn(view.refs, lastTx.repo_id, lastTx.ref) = lastTx.new_commit

\* C1 witness: an attestation was accepted on top of an earlier accepted one.
ChainOfCustodyWitness ==
    /\ verdict = "accepted"
    /\ lastTx.old_commit # GENESIS_COMMIT
    /\ <<lastTx.repo_id, lastTx.ref>> \in DOMAIN viewBefore

\* The refs table after the staged updates, applied in order.
RECURSIVE ApplyStaged(_, _)
ApplyStaged(refs, ups) ==
    IF ups = <<>> THEN refs
    ELSE LET u == Head(ups)
         IN  ApplyStaged(
                [k \in (DOMAIN refs) \cup {<<u.repo_id, u.ref>>} |->
                    IF k = <<u.repo_id, u.ref>>
                    THEN [commit_hash |-> u.commit, updated_at |-> u.ts]
                    ELSE refs[k]],
                Tail(ups))

\* C2: block-level atomicity.  The file always holds either exactly the
\* state before the current block (none of its ref updates, the checkpoint
\* as it was) or exactly the state after it (every accepted ref update of
\* the block and checkpoint = its index), wherever the cycle is or was
\* interrupted.
BlockAtomicity ==
    \/ durable = preBlock
    \/ /\ durable.ckpt = block.index
       /\ durable.refs = ApplyStaged(preBlock.refs, staged)

\* C2 witness: the process died inside a block after an accepted update
\* was written and before the commit.
BlockAtomicityWitness ==
    /\ pc = "terminated"
    /\ outcome \in {"killed", "uncaught"}
    /\ inBlock
    /\ staged # <<>>

\* C3: checkpoint monotonicity.  The persisted last_processed_block starts
\* at 0, no step decreases it, and it changes only at the commit of a
\* block, after the transaction loop of that block is over, to that
\* block's index.
CheckpointMonotonic ==
    /\ durable.ckpt = 0
    /\ [][/\ durable'.ckpt >= durable.ckpt
          /\ durable'.ckpt # durable.ckpt =>
                pc = "commit" /\ durable'.ckpt = block.index]_vars

\* C3 witness: a cycle over a response listing block 2 before block 1 has
\* ended with the checkpoint at 2.
CheckpointMonotonicWitness ==
    /\ pc = "loop"
    /\ outcome = "ok"
    /\ response = <<[index |-> 2], [index |-> 1]>>
    /\ durable.ckpt = 2

\* The largest block index of a non-empty chain.
RECURSIVE MaxIndexOf(_)
MaxIndexOf(chain) ==
    IF Len(chain) = 1 THEN chain[1].index
    ELSE LET m == MaxIndexOf(Tail(chain))
         IN  IF chain[1].index > m THEN chain[1].index ELSE m

\* C4: after a cycle that ended without a fetch or store error over a chain
\* whose largest block index M exceeds the checkpoint the cycle started
\* from, the checkpoint is M, whatever was accepted.
CheckpointReachesMax ==
    (/\ pc = "loop"
     /\ outcome = "ok"
     /\ response # <<>>
     /\ response # NoResponse
     /\ MaxIndexOf(response) > cycleStart.ckpt)
    => durable.ckpt = MaxIndexOf(response)

\* C4 witness: a cycle over two blocks ended with the checkpoint advanced
\* to 2 although no transaction was ever accepted.
CheckpointReachesMaxWitness ==
    /\ pc = "loop"
    /\ outcome = "ok"
    /\ Len(response) = 2
    /\ cycleStart.ckpt = 0
    /\ durable.ckpt = 2
    /\ durable.refs = NoRefs

\* C5 as claimed: whenever a block is being evaluated, its index is
\* greater than the checkpoint the file holds.
NoReEvaluation ==
    pc \in {"txs", "commit"} => block.index > durable.ckpt

\* C6: idempotence of re-delivery.  A cycle that ended "ok" and whose
\* response was the response of the cycle before it, which ended "ok" too,
\* left the refs table and the checkpoint as they were when it started.
RedeliveryIdempotent ==
    (pc = "loop" /\ outcome = "ok" /\ redelivered) => durable = cycleStart

\* C6 witness: a non-empty chain with accepted updates was delivered twice.
RedeliveryIdempotentWitness ==
    /\ pc = "loop"
    /\ outcome = "ok"
    /\ redelivered
    /\ Len(response) = 2
    /\ durable.refs # NoRefs

\* C7 as claimed: verify_signature never raises; for every transaction the
\* transaction loop hands it, it returns true or false.
VerifySignatureNeverRaises ==
    RequiredFields \subseteq DOMAIN lastTx =>
        verify_signature(lastTx) \in {"True", "False"}

\* C8 as claimed: no error surfaced by a cycle ends the poll loop.
PollLoopSurvivesErrors == exit # "uncaught"

\* C9: transport failure.  A cycle whose fetch failed left the checkpoint
\* and every refs row as they were when it started, and the next cycle
\* reads that same checkpoint.
TransportFailure ==
    /\ []((pc = "loop" /\ outcome = "fetch_error") => durable = cycleStart)
    /\ [][(pc = "loop" /\ outcome = "fetch_error" /\ pc' = "fetch") =>
            last_processed_block' = cycleStart.ckpt]_vars

\* C9 witness: the fetch failed in a cycle that started from a store with
\* an advanced checkpoint and a refs row.
TransportFailureWitness ==
    /\ pc = "loop"
    /\ outcome = "fetch_error"
    /\ durable.ckpt > 0
    /\ durable.refs # NoRefs

\* C10: durable-store failure.  A cycle that a store error ended inside
\* block B left the file as the last commit of the cycle left it (as the
\* cycle found it, when B was its first block): nothing of B is in it, the
\* checkpoint is the one B was reached with, and the next cycle reads that
\* checkpoint.
StoreFailure ==
    /\ []((pc = "loop" /\ outcome = "db_error" /\ inBlock) =>
            /\ durable = lastCommit
            /\ durable = preBlock
            /\ durable.ckpt <= block.index)
    /\ [][(pc = "loop" /\ outcome = "db_error" /\ inBlock /\ pc' = "fetch") =>
            last_processed_block' = lastCommit.ckpt]_vars

\* C10 witness: a store error ended the cycle inside its second block,
\* after an update of that block was written; the first block is committed.
StoreFailureWitness ==
    /\ pc = "loop"
    /\ outcome = "db_error"
    /\ inBlock
    /\ staged # <<>>
    /\ lastCommit # cycleStart
    /\ durable.ckpt = 1
    /\ block.index = 2

\* tx has the six fields line 62 asks of an attestation.
IsAttestation(tx) == RequiredFields \subseteq DOMAIN tx

\* The signature of tx is one the private key of the public key in tx made
\* over the four signed fields of tx, as ECDSA verification decides it.
SigVerifies(tx) ==
    /\ tx.signer_identity.enc = "hex"
    /\ tx.signer_identity.point \in {"PK1", "PK2"}
    /\ tx.signature.enc = "hex"
    /\ tx.signature.by = tx.signer_identity.point
    /\ tx.signature.over =
          [repo_id |-> tx.repo_id, ref |-> tx.ref,
           old_commit |-> tx.old_commit, new_commit |-> tx.new_commit]

\* C11: a rejected transaction changes no refs row.  When the transaction
\* just evaluated fails the signature check or has an old_commit that is
\* not the head its key had, the refs table the connection reads is the
\* one it read before the evaluation and the file holds no write of the
\* block; a transaction whose signature check raised leaves the file as
\* the block found it.
RejectedChangesNothing ==
    /\ (/\ pc = "txs"
        /\ IsAttestation(lastTx)
        /\ \/ ~SigVerifies(lastTx)
           \/ lastTx.old_commit # HeadIn(viewBefore, lastTx.repo_id, lastTx.ref))
       => (view.refs = viewBefore /\ durable = preBlock)
    /\ verdict = "raised" => durable = preBlock

\* C11 witness: a validly signed attestation was rejected for its
\* old_commit after an update of the same block was written.
RejectedChangesNothingWitness ==
    /\ pc = "txs"
    /\ verdict = "inconsistent"
    /\ SigVerifies(lastTx)
    /\ staged # <<>>
    /\ viewBefore # NoRefs

\* The refs table a block with transactions txs and timestamp ts leaves
\* when it is applied to refs by the rules of the ledger: each transaction
\* in order; one that is an attestation, whose signature verifies and whose
\* old_commit is the head of its key sets the head to its new_commit.
RECURSIVE DeriveBlock(_, _, _)
DeriveBlock(refs, txs, ts) ==
    IF txs = <<>> THEN refs
    ELSE LET tx == Head(txs)
             ok == /\ IsAttestation(tx)
                   /\ SigVerifies(tx)
                   /\ tx.old_commit = HeadIn(refs, tx.repo_id, tx.ref)
             k  == <<tx.repo_id, tx.ref>>
         IN  DeriveBlock(
                IF ok
                THEN [j \in (DOMAIN refs) \cup {k} |->
                        IF j = k
                        THEN [commit_hash |-> tx.new_commit, updated_at |-> ts]
                        ELSE refs[j]]
                ELSE refs,
                Tail(txs), ts)

\* C12: partial-block isolation.  Over a fixed chain, the transaction just
\* evaluated is the one at the loop's position in the block (none is left
\* out after a skipped or rejected one), it is accepted when its signature
\* verifies and its old_commit is the head, and when the block's checkpoint
\* is written the refs table is the one all transactions of the block,
\* taken in order, lead to.
PartialBlockIsolation ==
    /\ (pc = "txs" /\ lastTx # NoTx) =>
          /\ txCount \in 1..Len(ledger[block.index].transactions)
          /\ lastTx = ledger[block.index].transactions[txCount]
    /\ (/\ pc = "txs"
        /\ IsAttestation(lastTx)
        /\ SigVerifies(lastTx)
        /\ lastTx.old_commit = HeadIn(viewBefore, lastTx.repo_id, lastTx.ref))
       => verdict = "accepted"
    /\ pc = "commit" =>
          view.refs = DeriveBlock(preBlock.refs, ledger[block.index].transactions,
                                  block.timestamp)

\* C12 witness: the second transaction of a block was accepted after the
\* first one was skipped or rejected.
PartialBlockIsolationWitness ==
    /\ pc = "txs"
    /\ txCount = 2
    /\ verdict = "accepted"
    /\ Len(staged) = 1
    /\ lastTx = ledger[block.index].transactions[2]

\* C13: genesis acceptance.  A validly signed attestation for a key
\* without a refs row is accepted, and its new_commit becomes the head,
\* exactly when its old_commit is the string of forty '0'; with any other
\* old_commit it is rejected and the key still has no row.
GenesisAcceptance ==
    (/\ pc = "txs"
     /\ IsAttestation(lastTx)
     /\ SigVerifies(lastTx)
     /\ <<lastTx.repo_id, lastTx.ref>> \notin DOMAIN viewBefore)
    => IF lastTx.old_commit = "0000000000000000000000000000000000000000"
       THEN /\ verdict = "accepted"
            /\ <<lastTx.repo_id, lastTx.ref>> \in DOMAIN view.refs
            /\ view.refs[<<lastTx.repo_id, lastTx.ref>>].commit_hash = lastTx.new_commit
       ELSE /\ verdict = "inconsistent"
            /\ <<lastTx.repo_id, lastTx.ref>> \notin DOMAIN view.refs

\* C13 witness: the first attestation of a key was accepted from the
\* GENESIS sentinel while another key already had a row.
GenesisAcceptanceWitness ==
    /\ pc = "txs"
    /\ verdict = "accepted"
    /\ lastTx.old_commit = GENESIS_COMMIT
    /\ viewBefore # NoRefs
    /\ <<lastTx.repo_id, lastTx.ref>> \notin DOMAIN viewBefore

\* C14 as claimed: the fetch has a finite timeout, so every cycle that
\* reached the fetch leaves it, also when the node never answers.
FetchReturns == (pc = "fetch") ~> (pc # "fetch")

\* C15: ascending processing order.  Inside a cycle the blocks still to
\* come are in ascending index order and none is below the block in hand,
\* the block in hand is above the checkpoint the cycle read, and nothing
\* committed in the cycle is above the block in hand, whatever order the
\* response listed the blocks in.
AscendingOrder ==
    pc \in {"next", "txs", "commit"} =>
        /\ \A i \in 1..Len(new_blocks) : \A j \in i..Len(new_blocks) :
              new_blocks[i].index <= new_blocks[j].index
        /\ \A i \in 1..Len(new_blocks) :
              /\ new_blocks[i].index > cycleStart.ckpt
              /\ block.index <= new_blocks[i].index
        /\ block # NoBlock => block.index > cycleStart.ckpt
        /\ block # NoBlock => durable.ckpt <= block.index

\* C15 witness: the response listed block 2 before block 1, and block 1
\* was committed with an update before block 2 is evaluated.
AscendingOrderWitness ==
    /\ pc = "txs"
    /\ Len(response) = 2
    /\ response[1].index = 2
    /\ response[2].index = 1
    /\ block.index = 2
    /\ durable.ckpt = 1
    /\ cycleStart.ckpt = 0
    /\ durable.refs # NoRefs

\* C16: no cycle overlap.  Whenever the loop of line 107 is about to call
\* process_chain, the connection of the cycle before is closed and no
\* transaction of it is open (what a connection would read is what the
\* file holds); a connection is open only inside the one running cycle,
\* and a cycle starts only from the loop.
NoCycleOverlap ==
    /\ [](pc = "loop" => (conn = "closed" /\ view = durable))
    /\ [](conn = "open" => pc \in {"fetch", "next", "txs", "commit"})
    /\ [][conn' = "open" /\ conn # "open" => pc = "loop" /\ view = durable]_vars

\* C16 witness: a cycle that committed a block has returned and the loop
\* is about to start the next cycle.
NoCycleOverlapWitness ==
    /\ pc = "loop"
    /\ outcome = "ok"
    /\ conn = "closed"
    /\ durable.ckpt > cycleStart.ckpt

\* C17: intra-block chaining.  When an update accepted earlier in the same,
\* not yet committed, block has moved the head of a key away from what the
\* file holds, a validly signed attestation whose old_commit is that moved
\* head is accepted and moves the head on; and once the block is committed
\* the head of the key updated last is the new_commit of that last update.
IntraBlockChaining ==
    /\ (/\ pc = "txs"
        /\ IsAttestation(lastTx)
        /\ SigVerifies(lastTx)
        /\ HeadIn(viewBefore, lastTx.repo_id, lastTx.ref) #
              HeadIn(preBlock.refs, lastTx.repo_id, lastTx.ref)
        /\ lastTx.old_commit = HeadIn(viewBefore, lastTx.repo_id, lastTx.ref))
       => /\ verdict = "accepted"
          /\ HeadIn(view.refs, lastTx.repo_id, lastTx.ref) = lastTx.new_commit
    /\ (pc = "next" /\ staged # <<>>) =>
          HeadIn(durable.refs, staged[Len(staged)].repo_id, staged[Len(staged)].ref)
              = staged[Len(staged)].commit

\* C17 witness: a block with two attestations for one key, the second on
\* top of the first, has been committed.
IntraBlockChainingWitness ==
    /\ pc = "next"
    /\ Len(staged) = 2
    /\ staged[1].repo_id = staged[2].repo_id
    /\ staged[1].ref = staged[2].ref
    /\ staged[1].commit = "a1a1"
    /\ staged[2].commit = "b2b2"
    /\ HeadIn(durable.refs, staged[2].repo_id, staged[2].ref) = "b2b2"
    /\ HeadIn(preBlock.refs, staged[2].repo_id, staged[2].ref) = GENESIS_COMMIT

\* The store the rules of the ledger derive from the first n blocks of the
\* fixed chain, applied in index order, each block whole.
RECURSIVE DeriveUpTo(_)
DeriveUpTo(n) ==
    IF n = 0 THEN [refs |-> NoRefs, ckpt |-> 0]
    ELSE [refs |-> DeriveBlock(DeriveUpTo(n - 1).refs, ledger[n].transactions,
                               LedgerStamp(n)),
          ckpt |-> n]

\* C18: derivation independent of cycle boundaries.  Over a fixed gapless
\* chain, the file always holds exactly the store derived from the blocks
\* up to its checkpoint, however the blocks were spread over cycles and
\* whichever cycles were ended by fetch errors, store errors or kills
\* before; and a cycle that returns normally has brought the checkpoint to
\* the last block delivered to it.
DeterministicDerivation ==
    /\ durable = DeriveUpTo(durable.ckpt)
    /\ (pc = "loop" /\ outcome = "ok" /\ Len(response) > cycleStart.ckpt) =>
          durable.ckpt = Len(response)

\* C18 witness: the whole chain is processed, its last block in a later
\* cycle than its first, and the derived refs table has a row.
DeterministicDerivationWitness ==
    /\ pc = "loop"
    /\ outcome = "ok"
    /\ cycleStart.ckpt > 0
    /\ cycleStart.ckpt < durable.ckpt
    /\ durable.ckpt = MaxIndex
    /\ durable.refs # cycleStart.refs

\* C19: provenance of derived state.  Over a fixed chain, every row of the
\* refs table in the file has as commit_hash the new_commit of an
\* attestation for its key whose signature verifies and which is in a
\* block with index at most the checkpoint, and as updated_at the
\* timestamp of that block; and no step removes a row from the file.
Provenance ==
    /\ [](\A k \in DOMAIN durable.refs :
            \E i \in 1..durable.ckpt :
                /\ "transactions" \in DOMAIN ledger[i]
                /\ \E j \in 1..Len(ledger[i].transactions) :
                      LET tx == ledger[i].transactions[j]
                      IN  /\ IsAttestation(tx)
                          /\ SigVerifies(tx)
                          /\ <<tx.repo_id, tx.ref>> = k
                          /\ tx.new_commit = durable.refs[k].commit_hash
                          /\ durable.refs[k].updated_at = LedgerStamp(i))
    /\ [][DOMAIN durable.refs \subseteq DOMAIN durable.refs']_vars

\* C19 witness: the file holds a row that block 2 replaced and a row that
\* block 2 created.
ProvenanceWitness ==
    /\ durable.ckpt = 2
    /\ DOMAIN durable.refs = {<<"r1", "main">>, <<"r1", "dev">>}
    /\ durable.refs[<<"r1", "main">>] = [commit_hash |-> "b2b2", updated_at |-> 2000]
    /\ durable.refs[<<"r1", "dev">>].updated_at = 2000

\* Two transactions attest the same move of the same ref.
SameMove(a, b) ==
    /\ a.repo_id = b.repo_id
    /\ a.ref = b.ref
    /\ a.old_commit = b.old_commit
    /\ a.new_commit = b.new_commit

\* C20: acceptance does not depend on the signer.  An attestation just
\* evaluated was accepted exactly when its signature verifies under the
\* key it carries and its old_commit is the head its key had; and every
\* attestation of the same move validly signed by any other key gets the
\* same outcome on the refs table it was evaluated on.
SignerIndependence ==
    (pc = "txs" /\ IsAttestation(lastTx)) =>
        /\ (verdict = "accepted") <=>
              /\ SigVerifies(lastTx)
              /\ lastTx.old_commit = HeadIn(viewBefore, lastTx.repo_id, lastTx.ref)
        /\ SigVerifies(lastTx) =>
              \A tx \in TxPool :
                  (IsAttestation(tx) /\ SigVerifies(tx) /\ SameMove(tx, lastTx))
                  => Evaluate(tx, viewBefore) = verdict

\* C20 witness: the second key holder moved a head that an earlier update
\* had set, and the first key holder signed the same move.
SignerIndependenceWitness ==
    /\ pc = "txs"
    /\ verdict = "accepted"
    /\ lastTx.signer_identity = SignerPK2
    /\ lastTx.old_commit = "a1a1"
    /\ viewBefore[<<lastTx.repo_id, lastTx.ref>>].commit_hash = "a1a1"
    /\ \E tx \in TxPool :
          /\ IsAttestation(tx)
          /\ SameMove(tx, lastTx)
          /\ tx.signer_identity = SignerPK1
          /\ SigVerifies(tx)

=============================================================================
